---- MODULE Spec2Model ----
(***************************************************************************)
(* Model of sunpower_cryocooler.py: the SunpowerCryocooler transaction     *)
(* engine (connect / disconnect / _send_and_read / typed accessors) and    *)
(* the module-level reply parser parse_single_value.                       *)
(*                                                                         *)
(* Text is modelled as sequences of one-character strings; a byte that is  *)
(* not valid UTF-8 is the symbol BadByte and decodes to ReplChar.          *)
(***************************************************************************)
EXTENDS Integers, Sequences, FiniteSets, TLC

VARIABLES
    connection_type,  \* self.connection_type, fixed by __init__
    connected,        \* self.connected
    ser,              \* self.ser: None or the id of a serial handle
    sock,             \* self.sock: None or the id of a socket handle
    last_error,       \* self.last_error
    handles,          \* every transport handle opened so far: id -> "open" / "closed"
    rx,               \* bytes buffered in the current transport, not yet read
    op,               \* the last call: its name
    tcp_addr,         \* the last call's tcp_host / tcp_port arguments (connect)
    command,          \* the command string handed to _send_and_read by the last call
    io,               \* transport steps performed by the last call, in order
    reports,          \* (level, message) pairs the last call passed to _log, in order
    raw_data,         \* outcome of the transport read of the last call
    reply,            \* the list _send_and_read returned / parse_single_value was given
    outcome           \* how the last call ended: what it raised and what it returned

vars == <<connection_type, connected, ser, sock, last_error, handles, rx,
          op, tcp_addr, command, io, reports, raw_data, reply, outcome>>

---------------------------------------------------------------------------
(* Bounds of the model *)

\* transport handles the engine may open in one run
MaxHandles == 2

\* longest enumerated value token handed to parse_single_value, in characters
MaxTok == 2

\* longest enumerated run of bytes waiting in the transport, in bytes
MaxRaw == 4

---------------------------------------------------------------------------
(* Characters and strings *)

BadByte == "0xFF"
ReplChar == "U+FFFD"
CR == "\r"
LF == "\n"
SP == " "

UPPER == <<"A","B","C","D","E","F","G","H","I","J","K","L","M",
           "N","O","P","Q","R","S","T","U","V","W","X","Y","Z">>
LOWER == <<"a","b","c","d","e","f","g","h","i","j","k","l","m",
           "n","o","p","q","r","s","t","u","v","w","x","y","z">>
DIGITS == <<"0","1","2","3","4","5","6","7","8","9">>

\* str.lower() on one character
LowerChar(c) ==
    IF \E i \in 1..26 : UPPER[i] = c
    THEN LOWER[CHOOSE i \in 1..26 : UPPER[i] = c]
    ELSE c

\* str.lower()
lower(s) == [i \in 1..Len(s) |-> LowerChar(s[i])]

\* characters str.strip() removes
IsSpace(c) == c \in {" ", "\t", "\n", "\r", "\f"}

\* characters str.splitlines() breaks on
IsLineBreak(c) == c \in {"\n", "\r", "\f"}

IsDigit(c) == \E i \in 1..10 : DIGITS[i] = c

DigitVal(c) == (CHOOSE i \in 1..10 : DIGITS[i] = c) - 1

RECURSIVE lstrip(_)
lstrip(s) ==
    IF s # <<>> /\ IsSpace(Head(s)) THEN lstrip(Tail(s)) ELSE s

RECURSIVE rstrip(_)
rstrip(s) ==
    IF s # <<>> /\ IsSpace(s[Len(s)]) THEN rstrip(SubSeq(s, 1, Len(s) - 1)) ELSE s

\* str.strip()
strip(s) == rstrip(lstrip(s))

\* bytes.decode(errors="replace"): an undecodable byte becomes U+FFFD
decode(bytes) ==
    [i \in 1..Len(bytes) |-> IF bytes[i] = BadByte THEN ReplChar ELSE bytes[i]]

\* str.encode() of the ASCII text the engine sends
encode(s) == s

\* str.splitlines(): "\r\n" is one break, a trailing break adds no line
RECURSIVE splitlines(_)
splitlines(s) ==
    LET breaks == {i \in 1..Len(s) : IsLineBreak(s[i])}
        k == CHOOSE i \in breaks : \A j \in breaks : i <= j
        next == IF s[k] = CR /\ k < Len(s) /\ s[k + 1] = LF THEN k + 2 ELSE k + 1
    IN  IF s = <<>> THEN <<>>
        ELSE IF breaks = {} THEN <<s>>
        ELSE <<SubSeq(s, 1, k - 1)>> \o splitlines(SubSeq(s, next, Len(s)))

---------------------------------------------------------------------------
(* Values returned by parse_single_value: Union[float, int, bool, str] *)

BoolVal(b) == [tag |-> "bool", b |-> b, n |-> 0, e |-> 0, s |-> <<>>]
IntVal(n) == [tag |-> "int", b |-> FALSE, n |-> n, e |-> 0, s |-> <<>>]
StrVal(s) == [tag |-> "str", b |-> FALSE, n |-> 0, e |-> 0, s |-> s]

\* a finite float m * 10^e, kept with no trailing zero in m so that equal
\* numbers are equal records
RECURSIVE FloatVal(_, _)
FloatVal(m, e) ==
    IF m = 0 THEN [tag |-> "float", b |-> FALSE, n |-> 0, e |-> 0, s |-> <<>>]
    ELSE IF m % 10 = 0 THEN FloatVal(m \div 10, e + 1)
    ELSE [tag |-> "float", b |-> FALSE, n |-> m, e |-> e, s |-> <<>>]

\* float("inf"), float("-inf"), float("nan")
SpecialFloat(sign, name) == [tag |-> "float", b |-> FALSE, n |-> sign, e |-> 0, s |-> name]

\* the value Python would hold for a plain value of no type (returned None)
NoValue == [tag |-> "none", b |-> FALSE, n |-> 0, e |-> 0, s |-> <<>>]

NoReply == <<"N","o"," ","r","e","p","l","y">>

TrueWords == { <<"t","r","u","e">>, <<"y","e","s">>, <<"o","n">>, <<"1">> }
FalseWords == { <<"f","a","l","s","e">>, <<"n","o">>, <<"o","f","f">>, <<"0">> }

---------------------------------------------------------------------------
(* int(str) and float(str) *)

\* a run of digits in which single underscores may separate digits
DigitRun(s) ==
    /\ s # <<>>
    /\ IsDigit(s[1])
    /\ IsDigit(s[Len(s)])
    /\ \A i \in 1..Len(s) : IsDigit(s[i]) \/ s[i] = "_"
    /\ \A i \in 1..(Len(s) - 1) : ~(s[i] = "_" /\ s[i + 1] = "_")

RECURSIVE DigitsValue(_, _)
DigitsValue(s, acc) ==
    IF s = <<>> THEN acc
    ELSE IF Head(s) = "_" THEN DigitsValue(Tail(s), acc)
    ELSE DigitsValue(Tail(s), 10 * acc + DigitVal(Head(s)))

\* number of digits of a run, underscores not counted
DigitCount(s) == Cardinality({i \in 1..Len(s) : IsDigit(s[i])})

HasSign(s) == s # <<>> /\ Head(s) \in {"+", "-"}
SignOf(s) == IF s # <<>> /\ Head(s) = "-" THEN -1 ELSE 1
Unsigned(s) == IF HasSign(s) THEN Tail(s) ELSE s

\* int(val): [ok |-> FALSE] stands for ValueError
IntParse(val) ==
    LET t == strip(val)
        body == Unsigned(t)
    IN  IF DigitRun(body)
        THEN [ok |-> TRUE, n |-> SignOf(t) * DigitsValue(body, 0)]
        ELSE [ok |-> FALSE, n |-> 0]

\* position of the first character of s satisfying one of cs, 0 if none
FirstOf(s, cs) ==
    IF \E i \in 1..Len(s) : s[i] \in cs
    THEN CHOOSE i \in 1..Len(s) : s[i] \in cs /\ \A j \in 1..(i - 1) : s[j] \notin cs
    ELSE 0

\* float(val): [ok |-> FALSE] stands for ValueError
FloatParse(val) ==
    LET t == strip(val)
        body == Unsigned(t)
        ePos == FirstOf(body, {"e", "E"})
        mant == IF ePos = 0 THEN body ELSE SubSeq(body, 1, ePos - 1)
        expo == IF ePos = 0 THEN <<>> ELSE SubSeq(body, ePos + 1, Len(body))
        dot == FirstOf(mant, {"."})
        ip == IF dot = 0 THEN mant ELSE SubSeq(mant, 1, dot - 1)
        fp == IF dot = 0 THEN <<>> ELSE SubSeq(mant, dot + 1, Len(mant))
        mantOK == /\ ip # <<>> \/ fp # <<>>
                  /\ ip = <<>> \/ DigitRun(ip)
                  /\ fp = <<>> \/ DigitRun(fp)
        expoOK == ePos = 0 \/ DigitRun(Unsigned(expo))
        expoVal == IF ePos = 0 THEN 0 ELSE SignOf(expo) * DigitsValue(Unsigned(expo), 0)
        bad == [ok |-> FALSE, v |-> NoValue]
    IN  IF lower(body) \in { <<"i","n","f">>, <<"i","n","f","i","n","i","t","y">> }
        THEN [ok |-> TRUE, v |-> SpecialFloat(SignOf(t), <<"i","n","f">>)]
        ELSE IF lower(body) = <<"n","a","n">>
        THEN [ok |-> TRUE, v |-> SpecialFloat(1, <<"n","a","n">>)]
        ELSE IF mantOK /\ expoOK
        THEN [ok |-> TRUE,
              v |-> FloatVal(SignOf(t) * DigitsValue(ip \o fp, 0),
                             expoVal - DigitCount(fp))]
        ELSE bad

---------------------------------------------------------------------------
(* parse_single_value *)

\* what a call ends with: an exception or a returned value / list
Returned(v) == [raised |-> "none", value |-> v]
Raised(ex) == [raised |-> ex, value |-> NoValue]

\* faulty variant: the numeric attempts come before the boolean keywords
TypedValue_numbers_first(val) ==
    IF IntParse(val).ok THEN IntVal(IntParse(val).n)
    ELSE IF FloatParse(val).ok THEN FloatParse(val).v
    ELSE IF lower(val) \in TrueWords THEN BoolVal(TRUE)
    ELSE IF lower(val) \in FalseWords THEN BoolVal(FALSE)
    ELSE StrVal(strip(val))

\* faulty variant: float(val) is attempted before int(val)
TypedValue_float_first(val) ==
    IF lower(val) \in TrueWords THEN BoolVal(TRUE)
    ELSE IF lower(val) \in FalseWords THEN BoolVal(FALSE)
    ELSE IF FloatParse(val).ok THEN FloatParse(val).v
    ELSE IF IntParse(val).ok THEN IntVal(IntParse(val).n)
    ELSE StrVal(strip(val))

\* lines 22-41: typing of the value token
TypedValue(val) ==
    IF lower(val) \in TrueWords THEN BoolVal(TRUE)
    ELSE IF lower(val) \in FalseWords THEN BoolVal(FALSE)
    ELSE IF IntParse(val).ok THEN IntVal(IntParse(val).n)
    ELSE IF FloatParse(val).ok THEN FloatParse(val).v
    ELSE StrVal(strip(val))

\* an argument of parse_single_value: a list, or anything that is no list
PyList(items) == [is_list |-> TRUE, items |-> items]
NotAList == [is_list |-> FALSE, items |-> <<>>]

\* the list a call returned (its items are in the variable reply)
ListVal == [tag |-> "list", b |-> FALSE, n |-> 0, e |-> 0, s |-> <<>>]

\* faulty variant: reply[1] is read with no IndexError handler
parse_single_value_unguarded(r) ==
    IF ~r.is_list THEN Raised("TypeError")
    ELSE IF Len(r.items) < 2 THEN Raised("IndexError")
    ELSE Returned(TypedValue(r.items[2]))

\* faulty variant: the value is taken from the first element of the list
parse_single_value_first_element(r) ==
    IF ~r.is_list THEN Raised("TypeError")
    ELSE IF Len(r.items) < 2 THEN Returned(StrVal(NoReply))
    ELSE Returned(TypedValue(r.items[1]))

parse_single_value(r) ==
    IF ~r.is_list THEN Raised("TypeError")
    ELSE IF Len(r.items) < 2 THEN Returned(StrVal(NoReply))
    ELSE Returned(TypedValue(r.items[2]))

---------------------------------------------------------------------------
(* Logging *)

DEBUG == 10
INFO == 20
WARNING == 30
ERROR == 40

\* a log message: the fixed text of its f-string and the exception formatted
\* into it (the command or bytes formatted into it are recorded in io)
Msg(text, ex) == [text |-> text, ex |-> ex]

\* self.last_error = ""
EmptyMsg == Msg("", "")

\* what one call accumulates: transport steps, reports, and last_error
Frame(le) == [io |-> <<>>, reports |-> <<>>, last_error |-> le]

\* faulty variant: info reports are remembered in last_error as well
log_records_info(F, message, level) ==
    [F EXCEPT !.reports = Append(@, [level |-> level, message |-> message]),
              !.last_error = IF level >= INFO THEN message ELSE @]

\* _log(message, level): self.logger is always set, so the message goes to
\* the logger; warnings and worse are remembered in last_error
log(F, message, level) ==
    [F EXCEPT !.reports = Append(@, [level |-> level, message |-> message]),
              !.last_error = IF level >= WARNING THEN message ELSE @]

---------------------------------------------------------------------------
(* Transport handles *)

\* self.ser = None / self.sock = None
None == 0

\* the handle the engine uses for its connection type
CurrentHandle == IF connection_type = "serial" THEN ser
                 ELSE IF connection_type = "tcp" THEN sock
                 ELSE None

OpenHandles == {h \in 1..Len(handles) : handles[h] = "open"}

\* ser.read(1024) / sock.recv(1024)
ReadMax == 1024
\* time.sleep(0.2), in milliseconds
SettleMs == 200

---------------------------------------------------------------------------
(* The device side of one transaction *)

\* answers of the device, by the command it was sent
AnsTargetLine == <<"T","T","A","R","G","E","T"," ","1","2","0",".","5">>
AnsCoolerLine == <<"C","O","O","L","E","R"," ","O","N">>
AnsVersionOnly == <<"V","E","R","S","I","O","N">>
AnsTargetTwoLines == <<"T","T","A","R","G","E","T","\r","\n","1","2","0",".","5","\r","\n">>
AnsCoolerTwoLines == <<"C","O","O","L","E","R","\n","O","n","\n">>
AnsCoolerOff == <<"C","O","O","L","E","R","\r","\n","O","F","F">>
AnsBlank == <<" ","\r","\n">>
AnsBadBytes == <<BadByte,"\n",BadByte,"T","C","\n">>
AnsStatus == <<"S","T","A","T","U","S","\r","\n"," ","T","C"," ","7","7"," ","\r","\n","\r","\n","O","K">>
AnsColdHead == <<"T","C","\r","\n","7","7","\r","\n">>
AnsReject == <<"T","E","M","P"," ","R","J","\n","3","e","2","\n">>
AnsPower == <<"P","\n","h","i","g","h","\n">>

AnswersTo(name) ==
    CASE name = "get_status" -> {AnsStatus, AnsBlank}
      [] name = "get_error" -> {AnsBadBytes}
      [] name = "get_version" -> {AnsVersionOnly}
      [] name = "get_cold_head_temp" -> {AnsColdHead}
      [] name = "get_reject_temp" -> {AnsReject}
      [] name = "get_target_temp" -> {AnsTargetLine, AnsTargetTwoLines}
      [] name = "set_target_temp" -> {AnsTargetTwoLines}
      [] name = "get_measured_power" -> {AnsPower}
      [] name = "get_commanded_power" -> {AnsPower}
      [] name = "set_commanded_power" -> {AnsBlank}
      [] name = "turn_on_cooler" -> {AnsCoolerLine, AnsCoolerTwoLines}
      [] name = "turn_off_cooler" -> {AnsCoolerOff}

\* a status block three bytes longer than one read takes
AnsStatusLong == <<"S","T","A","T","U","S","\n">> \o [i \in 1..(ReadMax - 4) |-> "x"]

\* answers longer than one read takes; the device sends one only into an
\* empty transport buffer, which keeps the unread bytes bounded
LongAnswersTo(name) == IF name = "get_status" /\ rx = <<>> THEN {AnsStatusLong} ELSE {}

\* answers that may arrive only after the read has returned
LateAnswersTo(name) == IF name = "get_target_temp" THEN {AnsTargetTwoLines} ELSE {}

Device(write_ok, fault, answer, late) ==
    [write_ok |-> write_ok, fault |-> fault, answer |-> answer, late |-> late]

\* how the transport and the device behave during one transaction
Devices(name) ==
    {Device(FALSE, "none", <<>>, FALSE)}
    \cup {Device(TRUE, f, <<>>, FALSE) : f \in {"none", "error", "eof"}}
    \cup {Device(TRUE, "none", a, FALSE) : a \in AnswersTo(name) \cup LongAnswersTo(name)}
    \cup {Device(TRUE, "none", a, TRUE) : a \in LateAnswersTo(name)}

---------------------------------------------------------------------------
(* _send_command, _read_reply, _send_and_read *)

\* one call on the transport (or time.sleep), as recorded in io
Step(step, handle, data, result) ==
    [step |-> step, handle |-> handle, data |-> data, result |-> result]

\* the exception a failing transport call raises
TransportError == IF connection_type = "serial" THEN "SerialException" ELSE "socket.error"

\* faulty variant: the except branch logs the failure and does not re-raise
send_command_swallows(F, cmd, dev) ==
    LET full_cmd == cmd \o <<CR>>
        result == IF dev.write_ok THEN "ok" ELSE "failed"
        wrote == [F EXCEPT !.io = Append(@, Step("write", CurrentHandle, encode(full_cmd), result))]
    IN  IF dev.write_ok
        THEN [F |-> log(wrote, Msg("Sent command", ""), DEBUG), raised |-> "none"]
        ELSE [F |-> log(wrote, Msg("Failed to send command", TransportError), DEBUG),
              raised |-> "none"]

\* _send_command(command): the frame after it, and the exception it re-raises
send_command(F, cmd, dev) ==
    LET full_cmd == cmd \o <<CR>>
        result == IF dev.write_ok THEN "ok" ELSE "failed"
        wrote == [F EXCEPT !.io = Append(@, Step("write", CurrentHandle, encode(full_cmd), result))]
    IN  IF connection_type \in {"serial", "tcp"}
        THEN IF dev.write_ok
             THEN [F |-> log(wrote, Msg("Sent command", ""), DEBUG), raised |-> "none"]
             ELSE [F |-> log(wrote, Msg("Failed to send command", TransportError), DEBUG),
                   raised |-> TransportError]
        ELSE [F |-> log(F, Msg("Sent command", ""), DEBUG), raised |-> "none"]

\* bytes the transport holds when the read is issued
Available(dev) == rx \o (IF dev.late THEN <<>> ELSE dev.answer)

\* what ser.read(1024) / sock.recv(1024) does: "data" with the bytes, "zero"
\* (b""), "timeout" (socket.timeout) or "error" (the call raises)
TransportRead(dev) ==
    LET avail == Available(dev)
        n == IF Len(avail) < ReadMax THEN Len(avail) ELSE ReadMax
    IN  IF dev.fault = "error" THEN [kind |-> "error", bytes |-> <<>>]
        ELSE IF avail # <<>> THEN [kind |-> "data", bytes |-> SubSeq(avail, 1, n)]
        ELSE IF connection_type = "tcp" /\ dev.fault # "eof"
        THEN [kind |-> "timeout", bytes |-> <<>>]
        ELSE [kind |-> "zero", bytes |-> <<>>]

\* bytes left in the transport after the read, with an answer that came late
Leftover(dev) ==
    LET avail == Available(dev)
        rd == TransportRead(dev)
        rest == IF rd.kind = "data" THEN SubSeq(avail, Len(rd.bytes) + 1, Len(avail))
                ELSE avail
    IN  rest \o (IF dev.late THEN dev.answer ELSE <<>>)

\* no read was issued
NoRead == [kind |-> "none", bytes |-> <<>>]

\* faulty variant: the stripped line is appended without the test for emptiness
RECURSIVE StrippedLines_keeps_empty(_)
StrippedLines_keeps_empty(lines) ==
    IF lines = <<>> THEN <<>>
    ELSE <<strip(Head(lines))>> \o StrippedLines_keeps_empty(Tail(lines))

\* lines 148-153: decode, split into lines, keep the stripped non-empty ones
RECURSIVE StrippedLines(_)
StrippedLines(lines) ==
    IF lines = <<>> THEN <<>>
    ELSE LET stripped == strip(Head(lines))
         IN  (IF stripped # <<>> THEN <<stripped>> ELSE <<>>) \o StrippedLines(Tail(lines))

LinesOut(bytes) == StrippedLines(splitlines(decode(bytes)))

\* faulty variant: no inner handler for socket.timeout, which then falls to the
\* outer handler of transport errors
read_reply_timeout_as_error(F, dev) ==
    LET rd == TransportRead(dev)
        F1 == [F EXCEPT !.io = Append(@, Step("read", CurrentHandle, rd.bytes, rd.kind))]
    IN  IF rd.kind \in {"error", "timeout"}
        THEN [F |-> log(F1, Msg("Failed to read reply", TransportError), ERROR),
              lines |-> <<>>, rd |-> rd, raised |-> "none"]
        ELSE IF rd.bytes = <<>>
        THEN [F |-> log(F1, Msg("No data received.", ""), WARNING),
              lines |-> <<>>, rd |-> rd, raised |-> "none"]
        ELSE [F |-> log(F1, Msg("Raw received", ""), DEBUG),
              lines |-> LinesOut(rd.bytes), rd |-> rd, raised |-> "none"]

\* faulty variant: no outer handler, a transport error leaves _read_reply
read_reply_raises(F, dev) ==
    LET rd == TransportRead(dev)
        F1 == [F EXCEPT !.io = Append(@, Step("read", CurrentHandle, rd.bytes, rd.kind))]
    IN  IF rd.kind = "error"
        THEN [F |-> F1, lines |-> <<>>, rd |-> rd, raised |-> TransportError]
        ELSE IF rd.kind = "timeout"
        THEN [F |-> log(F1, Msg("TCP read timeout.", ""), WARNING),
              lines |-> <<>>, rd |-> rd, raised |-> "none"]
        ELSE IF rd.bytes = <<>>
        THEN [F |-> log(F1, Msg("No data received.", ""), WARNING),
              lines |-> <<>>, rd |-> rd, raised |-> "none"]
        ELSE [F |-> log(F1, Msg("Raw received", ""), DEBUG),
              lines |-> LinesOut(rd.bytes), rd |-> rd, raised |-> "none"]

\* _read_reply(): the frame after it, the list it returns, the read outcome,
\* and the exception that leaves it (none: every transport error is caught)
read_reply(F, dev) ==
    LET rd == IF connection_type \in {"serial", "tcp"} THEN TransportRead(dev) ELSE NoRead
        F1 == IF rd.kind = "none" THEN F
              ELSE [F EXCEPT !.io = Append(@, Step("read", CurrentHandle, rd.bytes, rd.kind))]
    IN  IF rd.kind = "error"
        THEN [F |-> log(F1, Msg("Failed to read reply", TransportError), ERROR),
              lines |-> <<>>, rd |-> rd, raised |-> "none"]
        ELSE IF rd.kind = "timeout"
        THEN [F |-> log(F1, Msg("TCP read timeout.", ""), WARNING),
              lines |-> <<>>, rd |-> rd, raised |-> "none"]
        ELSE IF rd.bytes = <<>>
        THEN [F |-> log(F1, Msg("No data received.", ""), WARNING),
              lines |-> <<>>, rd |-> rd, raised |-> "none"]
        ELSE [F |-> log(F1, Msg("Raw received", ""), DEBUG),
              lines |-> LinesOut(rd.bytes), rd |-> rd, raised |-> "none"]

\* time.sleep(0.2)
sleep(F) == [F EXCEPT !.io = Append(@, Step("sleep", SettleMs, <<>>, "ok"))]

\* faulty variant: no check of self.connected before sending
send_and_read_unguarded(F, cmd, dev) ==
    LET sent == send_command(F, cmd, dev)
        got == read_reply(sleep(sent.F), dev)
    IN  IF sent.raised # "none"
        THEN [F |-> sent.F, raised |-> sent.raised, lines |-> <<>>, rd |-> NoRead, rx |-> rx]
        ELSE [F |-> got.F, raised |-> got.raised, lines |-> got.lines, rd |-> got.rd,
              rx |-> Leftover(dev)]

\* faulty variant: a read that brought nothing is tried a second time
send_and_read_rereads(F, cmd, dev) ==
    IF connected
    THEN LET sent == send_command(F, cmd, dev)
             first == read_reply(sleep(sent.F), dev)
             got == IF first.lines = <<>> THEN read_reply(first.F, dev) ELSE first
         IN  IF sent.raised # "none"
             THEN [F |-> sent.F, raised |-> sent.raised, lines |-> <<>>, rd |-> NoRead, rx |-> rx]
             ELSE [F |-> got.F, raised |-> got.raised, lines |-> got.lines, rd |-> got.rd,
                   rx |-> Leftover(dev)]
    ELSE [F |-> log(F, Msg("Failed to send command: Not connected", ""), ERROR),
          raised |-> "none", lines |-> <<>>, rd |-> NoRead, rx |-> rx]

\* _send_and_read(command)
send_and_read(F, cmd, dev) ==
    IF connected
    THEN LET sent == send_command(F, cmd, dev)
             got == read_reply(sleep(sent.F), dev)
         IN  IF sent.raised # "none"
             THEN [F |-> sent.F, raised |-> sent.raised, lines |-> <<>>, rd |-> NoRead, rx |-> rx]
             ELSE [F |-> got.F, raised |-> got.raised, lines |-> got.lines, rd |-> got.rd,
                   rx |-> Leftover(dev)]
    ELSE [F |-> log(F, Msg("Failed to send command: Not connected", ""), ERROR),
          raised |-> "none", lines |-> <<>>, rd |-> NoRead, rx |-> rx]

---------------------------------------------------------------------------
(* Commands *)

CmdStatus == <<"S","T","A","T","U","S">>
CmdError == <<"E","R","R","O","R">>
CmdVersion == <<"V","E","R","S","I","O","N">>
CmdTC == <<"T","C">>
CmdTempRJ == <<"T","E","M","P"," ","R","J">>
CmdTTarget == <<"T","T","A","R","G","E","T">>
CmdP == <<"P">>
CmdPwout == <<"P","W","O","U","T">>
CmdCoolerOn == <<"C","O","O","L","E","R","=","O","N">>
CmdCoolerOff == <<"C","O","O","L","E","R","=","O","F","F">>

\* decimal digits of a natural number
RECURSIVE DigitsOf(_)
DigitsOf(n) ==
    IF n < 10 THEN <<DIGITS[n + 1]>> ELSE Append(DigitsOf(n \div 10), DIGITS[(n % 10) + 1])

RECURSIVE Pow10(_)
Pow10(k) == IF k = 0 THEN 1 ELSE 10 * Pow10(k - 1)

RECURSIVE ZeroPad(_, _)
ZeroPad(s, width) == IF Len(s) >= width THEN s ELSE ZeroPad(<<"0">> \o s, width)

\* f"{x}" for the float x = n * 10^e (n >= 0, e <= 0, n not a multiple of 10
\* unless e = 0): the shortest decimal that reads back as x
FormatFloat(x) ==
    IF x.e = 0 THEN DigitsOf(x.n) \o <<".", "0">>
    ELSE DigitsOf(x.n \div Pow10(-x.e)) \o <<".">>
         \o ZeroPad(DigitsOf(x.n % Pow10(-x.e)), -x.e)

\* arguments the caller passes to set_target_temp / set_commanded_power
TempArgs == { [n |-> 77, e |-> 0] }
WattArgs == { [n |-> 1205, e |-> -2] }

---------------------------------------------------------------------------
(* State machine *)

ConnectionTypes == {"serial", "tcp", "usb"}

\* tcp_host / tcp_port of a connect call: TRUE when given, FALSE when None
NoAddr == [host |-> FALSE, port |-> FALSE]

\* __init__(connection_type=...)
Init ==
    /\ connection_type \in ConnectionTypes
    /\ connected = FALSE
    /\ ser = None
    /\ sock = None
    /\ last_error = EmptyMsg
    /\ handles = <<>>
    /\ rx = <<>>
    /\ op = "__init__"
    /\ tcp_addr = NoAddr
    /\ command = <<>>
    /\ io = <<>>
    /\ reports = <<>>
    /\ raw_data = NoRead
    /\ reply = PyList(<<>>)
    /\ outcome = Returned(NoValue)

\* the call left these parts of the record of the last call empty
NoTransaction ==
    /\ command' = <<>>
    /\ raw_data' = NoRead
    /\ reply' = PyList(<<>>)

\* the handle table after a new handle replaced the attribute holding old:
\* the replaced object is finalised (closing it) when the runtime collects it
\* and nothing else refers to it, which the code does not control
Rebind(old, finalised) ==
    Append([h \in 1..Len(handles) |->
               IF h = old /\ finalised THEN "closed" ELSE handles[h]],
           "open")

\* connect(tcp_host, tcp_port, port, baudrate), the open call succeeding
connect_ok(host_given, port_given, finalised) ==
    LET new == Len(handles) + 1
        F == [Frame(last_error) EXCEPT !.io = <<Step("open", new, <<>>, "ok")>>]
    IN  /\ Len(handles) < MaxHandles
        /\ \/ /\ connection_type = "serial"
              /\ ser' = new
              /\ sock' = sock
              /\ handles' = Rebind(ser, finalised)
              /\ LET F1 == log(F, Msg("Serial connection opened", ""), INFO)
                 IN  /\ io' = F1.io
                     /\ reports' = F1.reports
                     /\ last_error' = F1.last_error
           \/ /\ connection_type = "tcp"
              /\ host_given /\ port_given
              /\ sock' = new
              /\ ser' = ser
              /\ handles' = Rebind(sock, finalised)
              /\ LET F1 == log(F, Msg("TCP connection opened", ""), INFO)
                 IN  /\ io' = F1.io
                     /\ reports' = F1.reports
                     /\ last_error' = F1.last_error
        /\ connected' = TRUE
        /\ rx' = <<>>
        /\ op' = "connect"
        /\ tcp_addr' = [host |-> host_given, port |-> port_given]
        /\ outcome' = Returned(NoValue)
        /\ NoTransaction
        /\ UNCHANGED connection_type

\* faulty variant: self.connected = True is set before the open call is known to
\* have succeeded
connect_fail_marks_connected(host_given, port_given) ==
    LET opens == \/ connection_type = "serial"
                 \/ connection_type = "tcp" /\ host_given /\ port_given
        ex == IF opens THEN TransportError ELSE "ValueError"
        F0 == [Frame(last_error) EXCEPT
                  !.io = IF opens THEN <<Step("open", None, <<>>, "failed")>> ELSE <<>>]
        F == log(F0, Msg("Failed to establish connection", ex), ERROR)
    IN  /\ io' = F.io
        /\ reports' = F.reports
        /\ last_error' = F.last_error
        /\ op' = "connect"
        /\ tcp_addr' = [host |-> host_given, port |-> port_given]
        /\ outcome' = Raised(ex)
        /\ NoTransaction
        /\ connected' = TRUE
        /\ UNCHANGED <<connection_type, ser, sock, handles, rx>>

\* connect(...), raising: the open call fails, the TCP address is missing,
\* or the connection type is unknown
connect_fail(host_given, port_given) ==
    LET opens == \/ connection_type = "serial"
                 \/ connection_type = "tcp" /\ host_given /\ port_given
        ex == IF opens THEN TransportError ELSE "ValueError"
        F0 == [Frame(last_error) EXCEPT
                  !.io = IF opens THEN <<Step("open", None, <<>>, "failed")>> ELSE <<>>]
        F == log(F0, Msg("Failed to establish connection", ex), ERROR)
    IN  /\ io' = F.io
        /\ reports' = F.reports
        /\ last_error' = F.last_error
        /\ op' = "connect"
        /\ tcp_addr' = [host |-> host_given, port |-> port_given]
        /\ outcome' = Raised(ex)
        /\ NoTransaction
        /\ UNCHANGED <<connection_type, connected, ser, sock, handles, rx>>

connect ==
    \E host_given \in BOOLEAN, port_given \in BOOLEAN :
        \/ \E finalised \in BOOLEAN : connect_ok(host_given, port_given, finalised)
        \/ connect_fail(host_given, port_given)

\* disconnect()
disconnect ==
    LET h == CurrentHandle
        text == IF connection_type = "serial" THEN "Serial connection closed."
                ELSE "TCP connection closed."
        \* close() of a handle that is already closed does nothing
        result == IF h # None /\ handles[h] = "open" THEN "ok" ELSE "noop"
        F == log([Frame(last_error) EXCEPT !.io = <<Step("close", h, <<>>, result)>>],
                 Msg(text, ""), INFO)
    IN  /\ op' = "disconnect"
        /\ tcp_addr' = NoAddr
        /\ NoTransaction
        /\ IF connection_type \in {"serial", "tcp"}
           THEN IF h = None
                THEN \* None has no close(): AttributeError, before anything is changed
                     /\ outcome' = Raised("AttributeError")
                     /\ io' = <<>>
                     /\ reports' = <<>>
                     /\ UNCHANGED <<connected, handles, rx, last_error>>
                ELSE /\ handles' = [handles EXCEPT ![h] = "closed"]
                     /\ io' = F.io
                     /\ reports' = F.reports
                     /\ last_error' = F.last_error
                     /\ connected' = FALSE
                     /\ rx' = <<>>
                     /\ outcome' = Returned(NoValue)
           ELSE /\ connected' = FALSE
                /\ outcome' = Returned(NoValue)
                /\ io' = <<>>
                /\ reports' = <<>>
                /\ UNCHANGED <<handles, rx, last_error>>
        /\ UNCHANGED <<connection_type, ser, sock>>

\* faulty variant: a failed transaction marks the engine disconnected
Transaction_drops_connection(name, cmd, typed) ==
    \E dev \in Devices(name) :
        \E r \in {send_and_read(Frame(last_error), cmd, dev)} :
            /\ op' = name
            /\ tcp_addr' = NoAddr
            /\ command' = cmd
            /\ io' = r.F.io
            /\ reports' = r.F.reports
            /\ last_error' = r.F.last_error
            /\ raw_data' = r.rd
            /\ reply' = PyList(r.lines)
            /\ rx' = r.rx
            /\ outcome' = IF r.raised # "none" THEN Raised(r.raised)
                          ELSE IF typed THEN parse_single_value(PyList(r.lines))
                          ELSE Returned(ListVal)
            /\ connected' = (connected /\ r.raised = "none" /\ r.rd.kind \notin {"error", "zero"})
            /\ UNCHANGED <<connection_type, ser, sock, handles>>

\* one accessor call: _send_and_read(cmd), then the raw list (get_status) or
\* parse_single_value of it
Transaction(name, cmd, typed) ==
    \E dev \in Devices(name) :
        \E r \in {send_and_read(Frame(last_error), cmd, dev)} :
            /\ op' = name
            /\ tcp_addr' = NoAddr
            /\ command' = cmd
            /\ io' = r.F.io
            /\ reports' = r.F.reports
            /\ last_error' = r.F.last_error
            /\ raw_data' = r.rd
            /\ reply' = PyList(r.lines)
            /\ rx' = r.rx
            /\ outcome' = IF r.raised # "none" THEN Raised(r.raised)
                          ELSE IF typed THEN parse_single_value(PyList(r.lines))
                          ELSE Returned(ListVal)
            /\ UNCHANGED <<connection_type, connected, ser, sock, handles>>

get_status == Transaction("get_status", CmdStatus, FALSE)
get_error == Transaction("get_error", CmdError, TRUE)
get_version == Transaction("get_version", CmdVersion, TRUE)
get_cold_head_temp == Transaction("get_cold_head_temp", CmdTC, TRUE)
get_reject_temp == Transaction("get_reject_temp", CmdTempRJ, TRUE)
get_target_temp == Transaction("get_target_temp", CmdTTarget, TRUE)
set_target_temp ==
    \E temp_kelvin \in TempArgs :
        Transaction("set_target_temp", CmdTTarget \o <<"=">> \o FormatFloat(temp_kelvin), TRUE)
get_measured_power == Transaction("get_measured_power", CmdP, TRUE)
get_commanded_power == Transaction("get_commanded_power", CmdPwout, TRUE)
set_commanded_power ==
    \E watts \in WattArgs :
        Transaction("set_commanded_power", CmdPwout \o <<"=">> \o FormatFloat(watts), TRUE)
turn_on_cooler == Transaction("turn_on_cooler", CmdCoolerOn, TRUE)
turn_off_cooler == Transaction("turn_off_cooler", CmdCoolerOff, TRUE)

TypedAccessors == {"get_error", "get_version", "get_cold_head_temp", "get_reject_temp",
                   "get_target_temp", "set_target_temp", "get_measured_power",
                   "get_commanded_power", "set_commanded_power", "turn_on_cooler",
                   "turn_off_cooler"}
Accessors == TypedAccessors \cup {"get_status"}

\* arguments a caller hands to parse_single_value directly
DirectArgs ==
    { PyList(<<>>),
      PyList(<< <<"V","E","R","S","I","O","N">> >>),
      PyList(<< <<"X">>, <<"T","R","U","E">> >>),
      PyList(<< <<"X">>, <<"0">> >>),
      PyList(<< <<"X">>, <<"4","2">> >>),
      PyList(<< <<"X">>, <<"3",".","5">> >>),
      PyList(<< <<"X">>, <<"h","e","l","l","o">> >>),
      NotAList }

\* a direct call of the module-level parse_single_value(reply)
parse_call ==
    \E arg \in DirectArgs :
        /\ op' = "parse_single_value"
        /\ tcp_addr' = NoAddr
        /\ reply' = arg
        /\ outcome' = parse_single_value(arg)
        /\ command' = <<>>
        /\ raw_data' = NoRead
        /\ io' = <<>>
        /\ reports' = <<>>
        /\ UNCHANGED <<connection_type, connected, ser, sock, handles, rx, last_error>>

Next ==
    \/ connect
    \/ disconnect
    \/ get_status
    \/ get_error
    \/ get_version
    \/ get_cold_head_temp
    \/ get_reject_temp
    \/ get_target_temp
    \/ set_target_temp
    \/ get_measured_power
    \/ get_commanded_power
    \/ set_commanded_power
    \/ turn_on_cooler
    \/ turn_off_cooler
    \/ parse_call

Spec == Init /\ [][Next]_vars

---------------------------------------------------------------------------
(* parse_single_value on its own: the argument is drawn, then the function  *)
(* is applied to it                                                         *)

\* characters of the enumerated value tokens
TokAlphabet == {"1", "0", "o", "N", "n", ".", " ", "-"}

\* value tokens of the documented examples and of the number grammar
NamedTokens ==
    { <<"T","R","U","E">>, <<"t","r","u","e">>, <<"Y","e","s">>, <<"O","F","F">>,
      <<"F","a","l","s","e">>, <<"4","2">>, <<"3",".","5">>, <<"h","e","l","l","o">>,
      <<"-","1","2","0",".","5","0">>, <<"1","e","3">>, <<"+","7">>, <<"1","_","0">>,
      <<"n","a","n">>, <<" ","4","2","\t">>, <<" ","h","i"," ">>, <<"1","2","0",".","5">> }

ValueTokens == NamedTokens \cup UNION {[1..n -> TokAlphabet] : n \in 0..MaxTok}

\* first elements (the echo) and later elements of the drawn lists
Echoes == { <<"X">>, <<"T","T","A","R","G","E","T">> }
Trailers == { <<"O","K">> }

ParseInputs ==
    {PyList(<<>>), NotAList}
    \cup {PyList(<<t>>) : t \in ValueTokens}
    \cup {PyList(<<x, t>>) : x \in Echoes, t \in ValueTokens}
    \cup {PyList(<<x, t, z>>) : x \in Echoes, t \in ValueTokens, z \in Trailers}

ParseInit ==
    /\ connection_type = "tcp"
    /\ connected = FALSE
    /\ ser = None
    /\ sock = None
    /\ last_error = EmptyMsg
    /\ handles = <<>>
    /\ rx = <<>>
    /\ op = "__init__"
    /\ tcp_addr = NoAddr
    /\ command = <<>>
    /\ io = <<>>
    /\ reports = <<>>
    /\ raw_data = NoRead
    /\ reply \in ParseInputs
    /\ outcome = Returned(NoValue)

\* parse_single_value(reply) applied to the drawn argument
parse_given ==
    /\ op = "__init__"
    /\ op' = "parse_single_value"
    /\ outcome' = parse_single_value(reply)
    /\ UNCHANGED <<connection_type, connected, ser, sock, last_error, handles, rx,
                   tcp_addr, command, io, reports, raw_data, reply>>

ParseNext == parse_given

ParseSpec == ParseInit /\ [][ParseNext]_vars

---------------------------------------------------------------------------
(* The lines of a reply: the bytes waiting in the transport are drawn, then *)
(* one _read_reply() or one get_status() is made on the connected engine    *)

\* bytes of the enumerated transport contents
RawAlphabet == {"a", " ", "\n", "\r", BadByte}

RawInputs ==
    {AnsStatus, AnsBadBytes, AnsTargetTwoLines}
    \cup UNION {[1..n -> RawAlphabet] : n \in 1..MaxRaw}

\* a connected engine, as connect() leaves it, with bytes waiting to be read
LinesInit ==
    /\ connection_type \in {"serial", "tcp"}
    /\ connected = TRUE
    /\ ser = IF connection_type = "serial" THEN 1 ELSE None
    /\ sock = IF connection_type = "tcp" THEN 1 ELSE None
    /\ last_error = EmptyMsg
    /\ handles = <<"open">>
    /\ rx \in RawInputs
    /\ op = "connect"
    /\ tcp_addr = NoAddr
    /\ command = <<>>
    /\ io = <<>>
    /\ reports = <<>>
    /\ raw_data = NoRead
    /\ reply = PyList(<<>>)
    /\ outcome = Returned(NoValue)

\* one _read_reply(), the device sending nothing more
read_reply_given ==
    \E r \in {read_reply(Frame(last_error), Device(TRUE, "none", <<>>, FALSE))} :
        /\ op = "connect"
        /\ op' = "_read_reply"
        /\ io' = r.F.io
        /\ reports' = r.F.reports
        /\ last_error' = r.F.last_error
        /\ raw_data' = r.rd
        /\ reply' = PyList(r.lines)
        /\ rx' = Leftover(Device(TRUE, "none", <<>>, FALSE))
        /\ outcome' = Returned(ListVal)
        /\ UNCHANGED <<connection_type, connected, ser, sock, handles, tcp_addr, command>>

\* one get_status() on that engine
get_status_given == op = "connect" /\ get_status

LinesNext == read_reply_given \/ get_status_given

LinesSpec == LinesInit /\ [][LinesNext]_vars

---------------------------------------------------------------------------
(* Vocabulary of the properties *)

\* str.split(): the whitespace-delimited tokens of a line
RECURSIVE TokensFrom(_, _)
TokensFrom(s, cur) ==
    IF s = <<>> THEN (IF cur # <<>> THEN <<cur>> ELSE <<>>)
    ELSE IF IsSpace(Head(s))
         THEN (IF cur # <<>> THEN <<cur>> ELSE <<>>) \o TokensFrom(Tail(s), <<>>)
         ELSE TokensFrom(Tail(s), Append(cur, Head(s)))

Tokens(s) == TokensFrom(s, <<>>)

\* the bytes are one line of the form "<echo> <value>"
IsEchoValueLine(bytes) ==
    /\ \A i \in 1..Len(bytes) : ~IsLineBreak(bytes[i])
    /\ Len(Tokens(decode(bytes))) = 2

\* the last call reported at this level
ReportedAt(level) == \E i \in 1..Len(reports) : reports[i].level = level

\* the last call performed this step on the transport
Did(step) == \E i \in 1..Len(io) : io[i].step = step

\* the last call performed this step with this result
DidWith(step, result) == \E i \in 1..Len(io) : io[i].step = step /\ io[i].result = result

StepCount(step) == Cardinality({i \in 1..Len(io) : io[i].step = step})

Sentinel == Returned(StrVal(NoReply))

---------------------------------------------------------------------------
(* C1 *)

\* C1: a typed accessor whose read returned the single line "<echo> <value>"
\* returns the typed parse of the second whitespace-delimited token of that
\* line, not the "No reply" sentinel.
C1_EchoValueLineIsParsed ==
    (op \in TypedAccessors /\ raw_data.kind = "data" /\ IsEchoValueLine(raw_data.bytes))
        => /\ outcome = Returned(TypedValue(Tokens(decode(raw_data.bytes))[2]))
           /\ outcome # Sentinel

---------------------------------------------------------------------------
(* C2 *)

\* C2: an accessor called while Disconnected returns the empty reply
\* (get_status) or "No reply" (typed accessors), reports at error level, does
\* not raise, performs no transport write or read, and leaves the engine
\* Disconnected.
C2_DisconnectedAccessorIsNoOp ==
    [][ (~connected /\ op' \in Accessors)
          => /\ reply' = PyList(<<>>)
             /\ io' = <<>>
             /\ raw_data' = NoRead
             /\ Len(reports') = 1 /\ reports'[1].level = ERROR
             /\ outcome'.raised = "none"
             /\ (op' = "get_status" => outcome' = Returned(ListVal))
             /\ (op' \in TypedAccessors => outcome' = Sentinel)
             /\ ~connected'
             /\ handles' = handles ]_vars

C2_Witness ==
    /\ ~connected
    /\ Len(handles) > 0
    /\ op = "get_version"
    /\ outcome = Sentinel
    /\ ReportedAt(ERROR)

---------------------------------------------------------------------------
(* C3 *)

\* C3: on a Connected engine, serial or TCP, a read that times out or
\* returns zero bytes gives an empty Reply and a warning-level report, raises
\* nothing, and is the only read of the transaction.
C3_NoDataIsEmptyReplyAndWarning ==
    (op \in Accessors /\ raw_data.kind \in {"timeout", "zero"})
        => /\ reply = PyList(<<>>)
           /\ outcome.raised = "none"
           /\ reports[Len(reports)].level = WARNING
           /\ ~ReportedAt(ERROR)
           /\ StepCount("read") = 1
           /\ StepCount("write") = 1

C3_Witness ==
    /\ connection_type = "tcp"
    /\ op = "get_status"
    /\ raw_data.kind = "timeout"
    /\ outcome = Returned(ListVal)
    /\ reply = PyList(<<>>)
    /\ last_error = Msg("TCP read timeout.", "")

---------------------------------------------------------------------------
(* C4 *)

\* C4: a write failure on a Connected engine is re-raised to the caller of
\* the accessor, and the transaction then performs no settle wait and no read.
C4_WriteFailureIsRaised ==
    (op \in Accessors /\ DidWith("write", "failed"))
        => /\ outcome.raised = TransportError
           /\ ~Did("sleep")
           /\ ~Did("read")
           /\ raw_data = NoRead

C4_Witness ==
    /\ op = "turn_on_cooler"
    /\ connected
    /\ DidWith("write", "failed")
    /\ outcome.raised = "socket.error"

---------------------------------------------------------------------------
(* C5 *)

\* C5: a disconnect after a successful connect completes without error and
\* leaves the engine Disconnected; a second disconnect right after it (its
\* close finds the handle already closed) is reported at warning level and
\* does not raise.
C5_SecondDisconnectWarns ==
    (op = "disconnect" /\ Did("close"))
        => /\ outcome.raised = "none"
           /\ ~connected
           /\ (DidWith("close", "noop") => ReportedAt(WARNING))

---------------------------------------------------------------------------
(* C6 *)

\* C6: a connect that fails (the open call fails, tcp_host or tcp_port is
\* missing for TCP, or the connection type is unknown) raises, reports at
\* error level, and leaves the connected flag and the handles as they were,
\* so a Disconnected engine stays Disconnected.
C6_FailedConnectLeavesDisconnected ==
    [][ (op' = "connect")
          => /\ (connection_type \notin {"serial", "tcp"} => outcome'.raised = "ValueError")
             /\ (connection_type = "tcp" /\ ~(tcp_addr'.host /\ tcp_addr'.port)
                    => outcome'.raised = "ValueError")
             /\ (\E i \in 1..Len(io') : io'[i].step = "open" /\ io'[i].result = "failed")
                    => outcome'.raised = TransportError
             /\ (outcome'.raised # "none"
                    => /\ reports'[Len(reports')].level = ERROR
                       /\ last_error' = Msg("Failed to establish connection", outcome'.raised)
                       /\ connected' = connected
                       /\ handles' = handles
                       /\ ser' = ser /\ sock' = sock) ]_vars

C6_Witness ==
    /\ op = "connect"
    /\ connection_type = "tcp"
    /\ outcome.raised = "ValueError"
    /\ ~connected
    /\ Len(handles) > 0

---------------------------------------------------------------------------
(* C7 *)

\* C7: at most one transport handle opened by the engine is open at a time.
C7_AtMostOneOpenHandle == Cardinality(OpenHandles) <= 1

---------------------------------------------------------------------------
(* C8 *)

\* C8: the connected flag becomes TRUE only in a successful connect and FALSE
\* only in disconnect; no accessor call, whatever its outcome, changes the
\* flag or the transport handles.
C8_OnlyExplicitCallsChangeConnection ==
    [][ /\ (~connected /\ connected') => (op' = "connect" /\ outcome'.raised = "none")
        /\ (connected /\ ~connected') => op' = "disconnect"
        /\ (op' \in Accessors \cup {"parse_single_value"})
              => /\ connected' = connected
                 /\ ser' = ser /\ sock' = sock
                 /\ handles' = handles ]_vars

C8_Witness ==
    /\ connected
    /\ op \in Accessors
    /\ outcome.raised # "none"
    /\ Cardinality(OpenHandles) = 1

---------------------------------------------------------------------------
(* C9 *)

\* C9: an accessor on a Connected engine raises only when the write of the
\* command failed; whatever the read gives (data, timeout, zero bytes, a
\* transport error, undecodable bytes, fewer than two lines) it returns a
\* value.
C9_OnlyWriteFailureRaises ==
    /\ (op \in Accessors /\ outcome.raised # "none") => DidWith("write", "failed")
    /\ (op \in Accessors /\ Did("read"))
          => /\ outcome.raised = "none"
             /\ outcome.value.tag \in {"list", "bool", "int", "float", "str"}

C9_Witness ==
    /\ op \in TypedAccessors
    /\ raw_data.kind = "error"
    /\ outcome = Sentinel
    /\ ReportedAt(ERROR)

---------------------------------------------------------------------------
(* C10 *)

\* C10: parse_single_value returns "No reply", raising nothing, for the
\* empty list and for a list of one element; get_version answered by
\* "VERSION" alone returns "No reply".
C10_ShortReplyIsNoReply ==
    /\ (op \in TypedAccessors \cup {"parse_single_value"}
          /\ reply.is_list /\ Len(reply.items) < 2
          /\ ~DidWith("write", "failed"))
          => outcome = Sentinel
    /\ (op = "get_version" /\ raw_data.kind = "data" /\ raw_data.bytes = AnsVersionOnly)
          => outcome = Sentinel

C10_Witness ==
    /\ op = "get_version"
    /\ raw_data.bytes = AnsVersionOnly
    /\ reply = PyList(<<CmdVersion>>)
    /\ outcome = Sentinel

---------------------------------------------------------------------------
(* C11 *)

\* c and d are the same letter in either case, or the same character
SameNoCase(c, d) == c = d \/ \E i \in 1..26 : {c, d} = {UPPER[i], LOWER[i]}

\* the token is the word, letter case aside
IsWord(val, word) ==
    /\ Len(val) = Len(word)
    /\ \A i \in 1..Len(word) : SameNoCase(val[i], word[i])

IsTrueKeyword(val) ==
    \/ IsWord(val, <<"t","r","u","e">>) \/ IsWord(val, <<"y","e","s">>)
    \/ IsWord(val, <<"o","n">>) \/ IsWord(val, <<"1">>)

IsFalseKeyword(val) ==
    \/ IsWord(val, <<"f","a","l","s","e">>) \/ IsWord(val, <<"n","o">>)
    \/ IsWord(val, <<"o","f","f">>) \/ IsWord(val, <<"0">>)

\* parse_single_value was applied to a list with a value token
Parsed == op = "parse_single_value" /\ reply.is_list /\ Len(reply.items) >= 2

\* C11: a value token that is true / yes / on / 1 in any letter case gives
\* boolean true, one that is false / no / off / 0 gives boolean false; "1" and
\* "0" are never returned as integers.
C11_BooleanKeywordsFirst ==
    Parsed =>
        /\ IsTrueKeyword(reply.items[2]) => outcome = Returned(BoolVal(TRUE))
        /\ IsFalseKeyword(reply.items[2]) => outcome = Returned(BoolVal(FALSE))
        /\ reply.items[2] \in {<<"1">>, <<"0">>} => outcome.value.tag # "int"

C11_Witness ==
    /\ Parsed
    /\ reply.items[2] = <<"o","N">>
    /\ outcome = Returned(BoolVal(TRUE))

---------------------------------------------------------------------------
(* C12 *)

AllDigits(s) == s # <<>> /\ \A i \in 1..Len(s) : IsDigit(s[i])

\* [sign] digits
IsIntegerLiteral(s) == AllDigits(Unsigned(s))

\* [sign] digits "." [digits]  or  [sign] [digits] "." digits
IsDecimalLiteral(s) ==
    \E k \in 1..Len(Unsigned(s)) :
        LET u == Unsigned(s)
            ip == SubSeq(u, 1, k - 1)
            fp == SubSeq(u, k + 1, Len(u))
        IN  /\ u[k] = "."
            /\ ip # <<>> \/ fp # <<>>
            /\ ip = <<>> \/ AllDigits(ip)
            /\ fp = <<>> \/ AllDigits(fp)

\* the number a run of digits writes
RECURSIVE NumberOf(_)
NumberOf(s) == IF s = <<>> THEN 0 ELSE 10 * NumberOf(SubSeq(s, 1, Len(s) - 1)) + DigitVal(s[Len(s)])

\* C12: for a value token that is no boolean keyword the attempts are made in
\* the order integer, float, string: an integer literal gives that integer
\* (never a float), a decimal literal gives a float, and a token that neither
\* int() nor float() accepts gives the trimmed token as a string.
C12_IntegerThenFloatThenString ==
    (Parsed /\ ~IsTrueKeyword(reply.items[2]) /\ ~IsFalseKeyword(reply.items[2])) =>
        LET val == reply.items[2]
            t == strip(val)
        IN  /\ IsIntegerLiteral(t)
                  => outcome = Returned(IntVal(SignOf(t) * NumberOf(Unsigned(t))))
            /\ IsDecimalLiteral(t) => outcome.value.tag = "float"
            /\ IntParse(val).ok => outcome.value.tag = "int"
            /\ (~IntParse(val).ok /\ FloatParse(val).ok) => outcome.value.tag = "float"
            /\ (~IntParse(val).ok /\ ~FloatParse(val).ok) => outcome = Returned(StrVal(t))
            /\ outcome.value.tag = "str"
                  => /\ outcome.value.s = t
                     /\ ~IsIntegerLiteral(t) /\ ~IsDecimalLiteral(t)

C12_Witness ==
    /\ Parsed
    /\ reply.items[2] = <<"4","2">>
    /\ outcome = Returned(IntVal(42))

---------------------------------------------------------------------------
(* C13 *)

---------------------------------------------------------------------------
(* C14 *)

\* positions of the reports at warning level or above
Serious(rs) == {i \in 1..Len(rs) : rs[i].level >= WARNING}

\* the message of the latest report at warning level or above
LatestSerious(rs) == rs[CHOOSE i \in Serious(rs) : \A j \in Serious(rs) : j <= i].message

\* C14: after every operation last_error is the message of the latest report
\* the operation made at warning level or above, and the value it had before
\* the operation when it made none: debug and info reports never change it.
C14_LastErrorIsLatestSeriousReport ==
    [][ last_error' = IF Serious(reports') # {} THEN LatestSerious(reports')
                      ELSE last_error ]_vars

\* an operation that reported at info level only kept an earlier error message
C14_Witness ==
    /\ reports # <<>>
    /\ Serious(reports) = {}
    /\ \E i \in 1..Len(reports) : reports[i].level = INFO
    /\ last_error # EmptyMsg

---------------------------------------------------------------------------
(* C15 *)

\* C15: the accessor that reads the commanded power sends the command "E" and
\* takes element 3 of the raw reply as a float without a bounds check: with
\* fewer than four elements in the reply it raises, it does not return
\* "No reply".
C15_CommandedPowerReadsElementThree ==
    (op = "get_commanded_power" /\ Did("read")) =>
        /\ command = <<"E">>
        /\ Len(reply.items) < 4 => outcome.raised # "none" /\ outcome # Sentinel

---------------------------------------------------------------------------
(* C16 *)

\* the last call was an accessor on a connected engine
TransactionOnConnected == op \in Accessors /\ connected

\* the one write carries the command as given, then one carriage return
WroteCommandOnce ==
    /\ StepCount("write") = 1
    /\ io[1].step = "write"
    /\ Len(io[1].data) = Len(command) + 1
    /\ SubSeq(io[1].data, 1, Len(command)) = command
    /\ io[1].data[Len(command) + 1] = "\r"
    /\ \A i \in 1..Len(command) : command[i] # "\r"

\* write, the settle delay, one read of at most 1024 bytes, and nothing else
WroteWaitedReadOnce ==
    /\ Len(io) = 3
    /\ WroteCommandOnce
    /\ io[2].step = "sleep" /\ io[2].handle = SettleMs
    /\ io[3].step = "read" /\ Len(io[3].data) <= ReadMax
    /\ raw_data.bytes = io[3].data

\* C16 as stated: every transaction started on a connected engine performs
\* exactly one write of the command plus one carriage return, then the settle
\* delay, then exactly one read of at most 1024 bytes, whatever the outcome.
C16_WriteWaitReadOnce == TransactionOnConnected => WroteWaitedReadOnce

\* C16 amended: every transaction started on a connected engine performs
\* exactly one write of the command plus one carriage return; when the write
\* succeeds the settle delay and exactly one read of at most 1024 bytes follow
\* and nothing else, whatever the read brings; when the write fails the
\* transaction ends there and raises, with no delay and no read.
C16_WriteWaitReadOnceUnlessWriteFails ==
    TransactionOnConnected =>
        /\ WroteCommandOnce
        /\ io[1].result = "ok" => WroteWaitedReadOnce
        /\ io[1].result # "ok" => Len(io) = 1 /\ outcome.raised # "none"

\* a transaction whose single read was cut at 1024 bytes
C16_Witness ==
    /\ TransactionOnConnected
    /\ WroteWaitedReadOnce
    /\ Len(io[3].data) = ReadMax
    /\ rx # <<>>

---------------------------------------------------------------------------
(* C17 *)

\* s begins with the non-empty p
LedBy(s, p) == p # <<>> /\ Len(s) >= Len(p) /\ SubSeq(s, 1, Len(p)) = p

\* C17: the reply of a transaction holds only what the device sent in answer
\* to that transaction's command: bytes that were already waiting in the
\* transport when the transaction began (an answer that came after an earlier
\* read had timed out) are never among the bytes it reads.
C17_ReplyBelongsToItsTransaction ==
    [][ (op' \in Accessors /\ raw_data'.kind = "data")
            => ~LedBy(raw_data'.bytes, SubSeq(rx, 1, IF Len(rx) < ReadMax THEN Len(rx) ELSE ReadMax)) ]_vars

---------------------------------------------------------------------------
(* C19 *)

\* the last call reported this message at warning level or above and
\* last_error holds it
Surfaced(message) ==
    /\ \E i \in 1..Len(reports) : reports[i].message = message /\ reports[i].level >= WARNING
    /\ last_error = message

\* C19: every failure or no-data outcome of an operation is reported at
\* warning level or above and is what last_error holds right after the
\* operation: a failed connect, an accessor on a disconnected engine, a failed
\* write, a read timeout, a zero-byte read, a transport error during the read.
C19_EveryFailureIsSurfaced ==
    /\ (op = "connect" /\ outcome.raised # "none")
           => Surfaced(Msg("Failed to establish connection", outcome.raised))
    /\ (op \in Accessors /\ ~connected)
           => Surfaced(Msg("Failed to send command: Not connected", ""))
    /\ (op \in Accessors /\ DidWith("write", "failed"))
           => Surfaced(Msg("Failed to send command", TransportError))
    /\ (op \in Accessors /\ DidWith("read", "timeout")) => Surfaced(Msg("TCP read timeout.", ""))
    /\ (op \in Accessors /\ DidWith("read", "zero")) => Surfaced(Msg("No data received.", ""))
    /\ (op \in Accessors /\ DidWith("read", "error"))
           => Surfaced(Msg("Failed to read reply", TransportError))

---------------------------------------------------------------------------
(* C20 *)

\* C20: disconnect on an engine that never connected successfully (just
\* constructed, or after failed connects only) does not raise and leaves the
\* engine disconnected.
C20_DisconnectBeforeConnectIsHarmless ==
    (op = "disconnect" /\ handles = <<>>) => outcome.raised = "none" /\ ~connected

---------------------------------------------------------------------------
(* C18 *)

\* positions of the characters of s that are not whitespace
Inked(s) == {i \in 1..Len(s) : ~IsSpace(s[i])}

\* positions i <= j of s lie on one line
OnOneLine(s, i, j) == \A k \in i..j : ~IsLineBreak(s[k])

\* positions of the first non-whitespace character of each line that has one
LineStarts(s) == {i \in Inked(s) : \A j \in Inked(s) : j < i => ~OnOneLine(s, j, i)}

\* the k-th of them, and the last non-whitespace position of its line
LineStart(s, k) == CHOOSE i \in LineStarts(s) : Cardinality({j \in LineStarts(s) : j < i}) = k - 1
LineEnd(s, i) == CHOOSE j \in Inked(s) :
                     /\ j >= i /\ OnOneLine(s, i, j)
                     /\ \A m \in Inked(s) : (m > j) => ~OnOneLine(s, i, m)

\* C18: every element of the list _read_reply returns, which _send_and_read
\* and get_status hand on as the reply, is non-empty and has no
\* whitespace at either end; the elements are, in order, the lines of the
\* decoded bytes of the one read that hold a non-whitespace character, each
\* from its first to its last such character; blank and whitespace-only
\* lines give no element.
C18_ReplyIsTheTrimmedNonBlankLines ==
    (op \in {"_read_reply", "get_status"} /\ raw_data.kind = "data") =>
        LET text == decode(raw_data.bytes)
            items == reply.items
        IN  /\ \A k \in 1..Len(items) :
                   /\ items[k] # <<>>
                   /\ ~IsSpace(items[k][1])
                   /\ ~IsSpace(items[k][Len(items[k])])
                   /\ \A c \in 1..Len(items[k]) : ~IsLineBreak(items[k][c])
            /\ Len(items) = Cardinality(LineStarts(text))
            /\ \A k \in 1..Len(items) :
                   items[k] = SubSeq(text, LineStart(text, k), LineEnd(text, LineStart(text, k)))

\* a padded line, a blank line and a last line without a line break
C18_Witness ==
    /\ op = "get_status"
    /\ rx = <<>>
    /\ raw_data.bytes = <<" ","a","\n"," ">> \o AnsStatus
    /\ reply.items = << <<"a">>, <<"S","T","A","T","U","S">>, <<"T","C"," ","7","7">>, <<"O","K">> >>

====
